---- MODULE Spec2Model ----
(***************************************************************************)
(* Copy-trading engine of polymarket-dashboard: smart pricing              *)
(* (smart_pricing.py), the position monitor and the pending order manager  *)
(* (copy_trading_engine.py), the exchange client wrapper (clob_client.py). *)
(*                                                                         *)
(* Units.  Prices are integers in units of 1e-8 (the 8 decimals that       *)
(* round(price, 8) keeps), so 1.0 is PriceScale.  Sizes of trader          *)
(* positions are whole shares, copy_percentage is in tenths of a percent,  *)
(* so user_size = size_change * copy_percentage / 100 is size * tenths in  *)
(* thousandths of a share.  Time is in whole hours.  TLC integers are 32   *)
(* bits wide: products that would not fit are compared through an exact    *)
(* integer division instead (noted where it happens).                      *)
(***************************************************************************)
EXTENDS Integers, Sequences, FiniteSets, TLC

PriceScale == 100000000

\* a price given in thousandths (0.502 is Milli(502))
Milli(m) == m * 100000

\* Python None for an optional number: <<>> is None, <<x>> is x
None == <<>>
Some(x) == <<x>>
Val(o) == o[1]

(***************************************************************************)
(* smart_pricing.py                                                        *)
(***************************************************************************)

\* spread/mid below 1/200 is spread_pct < 0.5, below 1/50 is spread_pct < 2.0
TIGHT_SPREAD_THRESHOLD == 200
WIDE_SPREAD_THRESHOLD == 50

TIME_WINDOW_1 == 6
TIME_WINDOW_2 == 12
TIME_WINDOW_3 == 24
TIME_WINDOW_4 == 36
WIDE_FIRST_WINDOW == 2
MIN_HOURS_BETWEEN == 3

\* round(base + num/den, 8): nearest integer of base + num/den in 1e-8 units,
\* ties to even as Python's round does; \div is floor division, % is >= 0
round8(base, num, den) ==
    LET q == num \div den
        r == num % den
        n == base + q
    IN  IF 2 * r < den THEN n
        ELSE IF 2 * r > den THEN n + 1
        ELSE IF n % 2 = 0 THEN n ELSE n + 1

\* spread_pct < threshold for spread_pct = 100 * frac.num / frac.den and a
\* threshold of 100/inv percent: inv * num < den, written without the product
spread_pct_below(frac, inv) == frac.num <= (frac.den - 1) \div inv

limit_result(price, urgency) ==
    [exc |-> "none", price |-> Some(price), order_type |-> "LIMIT", urgency |-> urgency]

market_result ==
    [exc |-> "none", price |-> None, order_type |-> "MARKET", urgency |-> "critical"]

\* mid_price = (bid + ask) / 2 is carried as bid + ask
tight_spread_strategy(target_price, bid, ask, order_side, hours_elapsed) ==
    LET spread == ask - bid
        sum == bid + ask
    IN  IF hours_elapsed < TIME_WINDOW_1 THEN
            limit_result(round8(target_price, 0, 1), "low")
        ELSE IF hours_elapsed < TIME_WINDOW_2 THEN
            IF order_side = "BUY"
            THEN limit_result(round8(target_price, spread, 10), "low")
            ELSE limit_result(round8(target_price, -spread, 10), "low")
        ELSE IF hours_elapsed < TIME_WINDOW_3 THEN
            IF order_side = "BUY"
            THEN \* min(mid_price, target_price + spread * 0.3)
                 IF 5 * sum <= 10 * target_price + 3 * spread
                 THEN limit_result(round8(0, sum, 2), "medium")
                 ELSE limit_result(round8(target_price, 3 * spread, 10), "medium")
            ELSE \* max(mid_price, target_price - spread * 0.3)
                 IF 5 * sum >= 10 * target_price - 3 * spread
                 THEN limit_result(round8(0, sum, 2), "medium")
                 ELSE limit_result(round8(target_price, -3 * spread, 10), "medium")
        ELSE IF hours_elapsed < TIME_WINDOW_4 THEN
            limit_result(round8(IF order_side = "BUY" THEN ask ELSE bid, 0, 1), "high")
        ELSE market_result

normal_spread_strategy(target_price, bid, ask, order_side, hours_elapsed) ==
    LET spread == ask - bid
        sum == bid + ask
    IN  IF hours_elapsed < TIME_WINDOW_1 THEN
            limit_result(round8(target_price, 0, 1), "low")
        ELSE IF hours_elapsed < TIME_WINDOW_2 THEN
            IF order_side = "BUY"
            THEN limit_result(round8(target_price, spread, 5), "medium")
            ELSE limit_result(round8(target_price, -spread, 5), "medium")
        ELSE IF hours_elapsed < TIME_WINDOW_3 THEN
            \* mid_price +- spread * 0.1 = (5 * (bid + ask) +- spread) / 10
            IF order_side = "BUY"
            THEN limit_result(round8(0, 5 * sum + spread, 10), "high")
            ELSE limit_result(round8(0, 5 * sum - spread, 10), "high")
        ELSE IF hours_elapsed < TIME_WINDOW_4 THEN
            IF order_side = "BUY"
            THEN limit_result(round8(ask, spread, 20), "high")
            ELSE limit_result(round8(bid, -spread, 20), "high")
        ELSE market_result

wide_spread_strategy(target_price, bid, ask, order_side, hours_elapsed) ==
    LET spread == ask - bid
        sum == bid + ask
    IN  IF hours_elapsed < WIDE_FIRST_WINDOW THEN
            limit_result(round8(target_price, 0, 1), "medium")
        ELSE IF hours_elapsed < TIME_WINDOW_1 THEN
            IF order_side = "BUY"
            THEN limit_result(round8(target_price, 3 * spread, 20), "medium")
            ELSE limit_result(round8(target_price, -3 * spread, 20), "medium")
        ELSE IF hours_elapsed < TIME_WINDOW_2 THEN
            limit_result(round8(0, sum, 2), "high")
        ELSE IF hours_elapsed < TIME_WINDOW_3 THEN
            IF order_side = "BUY"
            THEN limit_result(round8(ask, spread, 10), "high")
            ELSE limit_result(round8(bid, -spread, 10), "high")
        ELSE market_result

\* the regime chosen from market_data['spread_percentage']
liquidity_of(market_data) ==
    IF spread_pct_below(market_data.spread_frac, TIGHT_SPREAD_THRESHOLD) THEN "high"
    ELSE IF spread_pct_below(market_data.spread_frac, WIDE_SPREAD_THRESHOLD) THEN "normal"
    ELSE "low"

\* The strategy result, then the logging line that formats result['price']
\* with :.4f: for a MARKET result the price is None and the format raises
\* TypeError, so the call ends in an exception instead of returning.
calculate_optimal_price(target_price, order_side, market_data, hours_elapsed) ==
    LET bid == market_data.best_bid
        ask == market_data.best_ask
        liquidity == liquidity_of(market_data)
        result == IF liquidity = "high"
                      THEN tight_spread_strategy(target_price, bid, ask, order_side, hours_elapsed)
                  ELSE IF liquidity = "normal"
                      THEN normal_spread_strategy(target_price, bid, ask, order_side, hours_elapsed)
                  ELSE wide_spread_strategy(target_price, bid, ask, order_side, hours_elapsed)
    IN  IF result.price = None
        THEN [exc |-> "TypeError", price |-> None, order_type |-> "MARKET", urgency |-> "critical"]
        ELSE result

\* should_adjust_price without its first test (hours_elapsed < 6: return False)
should_adjust_price_no_floor(hours_elapsed, hours_since_last, adjustment_count) ==
    IF adjustment_count = 0 THEN TRUE
    ELSE IF hours_since_last # None /\ Val(hours_since_last) < MIN_HOURS_BETWEEN THEN FALSE
    ELSE \/ (hours_elapsed >= TIME_WINDOW_2 /\ adjustment_count <= 1)
         \/ (hours_elapsed >= TIME_WINDOW_3 /\ adjustment_count <= 2)
         \/ (hours_elapsed >= TIME_WINDOW_4 /\ adjustment_count <= 3)

\* should_adjust_price looking at the age of the order only: neither the
\* three hours since the last adjustment nor the adjustment count
should_adjust_price_any_time(hours_elapsed, hours_since_last, adjustment_count) ==
    hours_elapsed >= TIME_WINDOW_1

\* should_adjust_price with now - order_created_at = hours_elapsed and
\* now - last_adjustment = hours_since_last (None when never adjusted)
should_adjust_price(hours_elapsed, hours_since_last, adjustment_count) ==
    IF hours_elapsed < TIME_WINDOW_1 THEN FALSE
    ELSE IF adjustment_count = 0 /\ hours_elapsed >= TIME_WINDOW_1 THEN TRUE
    ELSE IF hours_since_last # None /\ Val(hours_since_last) < MIN_HOURS_BETWEEN THEN FALSE
    ELSE \/ (hours_elapsed >= TIME_WINDOW_1 /\ adjustment_count <= 0)
         \/ (hours_elapsed >= TIME_WINDOW_2 /\ adjustment_count <= 1)
         \/ (hours_elapsed >= TIME_WINDOW_3 /\ adjustment_count <= 2)
         \/ (hours_elapsed >= TIME_WINDOW_4 /\ adjustment_count <= 3)

(***************************************************************************)
(* clob_client.py: get_market_data                                         *)
(***************************************************************************)

\* what the order book call gives: a two-sided book, a book with no bids or
\* no asks, or an exception
get_market_data(book) ==
    IF book.kind = "error" THEN
        [best_bid |-> Milli(450), best_ask |-> Milli(550), spread_frac |-> [num |-> 1, den |-> 5]]
    ELSE IF book.kind = "empty" THEN
        [best_bid |-> 0, best_ask |-> PriceScale, spread_frac |-> [num |-> 1, den |-> 1]]
    ELSE
        [best_bid |-> book.bid, best_ask |-> book.ask,
         spread_frac |-> IF book.bid + book.ask > 0
                         THEN [num |-> 2 * (book.ask - book.bid), den |-> book.bid + book.ask]
                         ELSE [num |-> 0, den |-> 1]]

(***************************************************************************)
(* copy_trading_engine.py: the persisted tables, the exchange, the two     *)
(* periodic jobs                                                           *)
(***************************************************************************)

VARIABLES
    now,                   \* the clock, in hours
    trader_positions,      \* trader address -> the positions the data API would return
    copy_trading_config,   \* table copy_trading_config, a sequence of rows
    position_snapshots,    \* trader address -> the rows with MAX(snapshot_time)
    pending_copy_orders,   \* table pending_copy_orders, row id = index
    executed_copy_trades,  \* table executed_copy_trades
    exchange,              \* the orders the exchange holds, order id = index
    mon,                   \* position of the monitor job in monitor_positions, and what
                           \* its current or last _monitor_trader fetched, detected and did
    mgr,                   \* manager run -> its position in manage_pending_orders, and the
                           \* rows of its current or last pass with the age it saw
    env,                   \* the trades and monitor cycles so far, and how many may happen
    pin,                   \* inputs of a pricing call (pricing specifications)
    pout                   \* its results

vars == <<now, trader_positions, copy_trading_config, position_snapshots, pending_copy_orders, executed_copy_trades, exchange, mon, mgr, env, pin, pout>>

sysvars == <<now, trader_positions, copy_trading_config, position_snapshots, pending_copy_orders, executed_copy_trades, exchange, mon, mgr, env>>

\* self.MIN_TRADE_SIZE = 1.0 dollar
MIN_TRADE_SIZE == 1

\* bounds of the model: trades of the traders, monitor cycles and rows of
\* pending_copy_orders in Spec; trades and cycles in SpecClock, where time
\* passes up to hour MaxTime; the hours of a pricing call in SpecPricing;
\* the hours an order is followed in SpecLife
MaxHours == 40
MaxLife == 39
\* and the cancel calls the exchange may fail in a behaviour
MaxCancelFailures == 1
MaxTrades == 2
MaxCycles == 2
MaxOrders == 2
ClockTrades == 1
ClockCycles == 1
MaxTime == 6
\* in SpecPairings: monitor cycles, rows, database calls that raise and
\* calls of the disable endpoint
PairingCycles == 1
PairingOrders == 4
MaxDbErrors == 1
MaxDisables == 1

TickSteps == {3}

\* the markets the traders hold: key = f"{market_id}_{token_id}"
AllKeys == {<<"m1", "t1">>, <<"m2", "t2">>}
KeyOrder == << <<"m1", "t1">>, <<"m2", "t2">> >>
\* what a position of a trader may be: [size, avg_price]
Holdings == { <<2, Milli(400)>>, <<100, Milli(400)>>, <<200, Milli(550)>> }

\* what get_order_book may show when an order is priced
Books ==
    { [kind |-> "quote", bid |-> Milli(500), ask |-> Milli(502)],
      [kind |-> "quote", bid |-> Milli(496), ask |-> Milli(504)],
      [kind |-> "empty", bid |-> 0, ask |-> 0],
      [kind |-> "error", bid |-> 0, ask |-> 0] }

EmptyPositions == <<>>

\* the minimum check left out: no notional is below the minimum
notional_below_min_never(user_size, target_price) == FALSE

\* user_size * target_price < MIN_TRADE_SIZE, with user_size in thousandths
\* of a share and the price in 1e-8: user_size * price < 1000 * 10^8 *
\* MIN_TRADE_SIZE, the product split at 10^4 to stay within 32 bits
notional_below_min(user_size, target_price) ==
    user_size * (target_price \div 10000) + (user_size * (target_price % 10000)) \div 10000
        < 10000000 * MIN_TRADE_SIZE

(***************************************************************************)
(* Change detection                                                        *)
(***************************************************************************)

\* the keys of a dict in the order the model iterates it
keys_in_order(d) == SelectSeq(KeyOrder, LAMBDA k : k \in DOMAIN d)

change_event(type, action, pos, size_change, avg_price) ==
    [type |-> type, action |-> action, market_id |-> pos.market_id, token_id |-> pos.token_id,
     size |-> pos.size, avg_price |-> avg_price, size_change |-> size_change]

\* the first loop with a SIZE_DECREASE event that keeps the avg_price of
\* **new_pos instead of overriding it with the old one
RECURSIVE detect_new_or_resized_new_price(_, _, _)
detect_new_or_resized_new_price(old_snapshot, new_snapshot, keys) ==
    IF keys = <<>> THEN <<>>
    ELSE LET key == Head(keys)
             new_pos == new_snapshot[key]
             rest == detect_new_or_resized_new_price(old_snapshot, new_snapshot, Tail(keys))
         IN  IF key \notin DOMAIN old_snapshot THEN
                 <<change_event("NEW_POSITION", "BUY", new_pos, new_pos.size, new_pos.avg_price)>> \o rest
             ELSE IF new_pos.size > old_snapshot[key].size THEN
                 <<change_event("SIZE_INCREASE", "BUY", new_pos,
                                new_pos.size - old_snapshot[key].size, new_pos.avg_price)>> \o rest
             ELSE IF new_pos.size < old_snapshot[key].size THEN
                 <<change_event("SIZE_DECREASE", "SELL", new_pos,
                                old_snapshot[key].size - new_pos.size, new_pos.avg_price)>> \o rest
             ELSE rest

\* the first loop of _detect_position_changes, over new_snapshot.items()
RECURSIVE detect_new_or_resized(_, _, _)
detect_new_or_resized(old_snapshot, new_snapshot, keys) ==
    IF keys = <<>> THEN <<>>
    ELSE LET key == Head(keys)
             new_pos == new_snapshot[key]
             rest == detect_new_or_resized(old_snapshot, new_snapshot, Tail(keys))
         IN  IF key \notin DOMAIN old_snapshot THEN
                 <<change_event("NEW_POSITION", "BUY", new_pos, new_pos.size, new_pos.avg_price)>> \o rest
             ELSE IF new_pos.size > old_snapshot[key].size THEN
                 <<change_event("SIZE_INCREASE", "BUY", new_pos,
                                new_pos.size - old_snapshot[key].size, new_pos.avg_price)>> \o rest
             ELSE IF new_pos.size < old_snapshot[key].size THEN
                 <<change_event("SIZE_DECREASE", "SELL", new_pos,
                                old_snapshot[key].size - new_pos.size, old_snapshot[key].avg_price)>> \o rest
             ELSE rest

\* the second loop, over old_snapshot.items()
RECURSIVE detect_closed(_, _, _)
detect_closed(old_snapshot, new_snapshot, keys) ==
    IF keys = <<>> THEN <<>>
    ELSE LET key == Head(keys)
             old_pos == old_snapshot[key]
             rest == detect_closed(old_snapshot, new_snapshot, Tail(keys))
         IN  IF key \notin DOMAIN new_snapshot
             THEN <<change_event("POSITION_CLOSED", "SELL", old_pos, old_pos.size, old_pos.avg_price)>> \o rest
             ELSE rest

detect_position_changes(old_snapshot, new_snapshot) ==
    detect_new_or_resized(old_snapshot, new_snapshot, keys_in_order(new_snapshot))
        \o detect_closed(old_snapshot, new_snapshot, keys_in_order(old_snapshot))

\* _fetch_trader_positions: the positions of the response, or {} when the
\* response is not a 200 or the request raises
fetch_trader_positions(trader_address, ok) ==
    IF ok THEN trader_positions[trader_address] ELSE EmptyPositions

\* _get_last_snapshot: the rows of the trader with the latest snapshot_time
get_last_snapshot(trader_address) == position_snapshots[trader_address]

\* _save_snapshot: one INSERT per position, all with the transaction's NOW();
\* with no position nothing is inserted and the latest rows stay the old ones
save_snapshot(trader_address, positions) ==
    IF DOMAIN positions = {} THEN position_snapshots
    ELSE [position_snapshots EXCEPT ![trader_address] = positions]

\* _get_active_configs: the ids of the rows with enabled = true, in table order
get_active_configs ==
    SelectSeq([i \in 1..Len(copy_trading_config) |-> i], LAMBDA i : copy_trading_config[i].enabled)

open_status(row) == row.status \in {"pending", "partial"}

\* the rows _cancel_pending_buy_orders selects
pending_buy_orders(user_wallet, market_id, token_id) ==
    {i \in 1..Len(pending_copy_orders) :
        /\ pending_copy_orders[i].user_wallet_address = user_wallet
        /\ pending_copy_orders[i].market_id = market_id
        /\ pending_copy_orders[i].token_id = token_id
        /\ pending_copy_orders[i].order_side = "BUY"
        /\ open_status(pending_copy_orders[i])}

\* clob_client.cancel_order on the exchange: the order is cancelled when the
\* exchange accepts the call (accepted), otherwise the call raises inside
\* cancel_order, which returns False, and the order stays as it is
cancel_on_exchange(ex, order_ids, accepted) ==
    [o \in 1..Len(ex) |->
        IF o \in order_ids /\ o \in accepted /\ ex[o].state = "LIVE"
        THEN [ex[o] EXCEPT !.state = "CANCELLED"]
        ELSE ex[o]]

\* how many of the orders are live: a cancel call that fails on such an
\* order counts in env.cancel_failures
live_orders(order_ids) == Cardinality({o \in order_ids : exchange[o].state = "LIVE"})

\* the order ids of a set of rows that have one
clob_ids(rows) == {Val(pending_copy_orders[i].clob_order_id) : i \in {j \in rows : pending_copy_orders[j].clob_order_id # None}}

\* what post_order leaves on the exchange: a GTC limit order rests (LIVE), a
\* FOK market order that was accepted is filled; for a market order size and
\* price are the two factors of the dollar amount
exchange_order(order_type, token_id, order_side, size, price) ==
    [order_type |-> order_type, token_id |-> token_id, order_side |-> order_side,
     size |-> size, price |-> price,
     state |-> IF order_type = "MARKET" THEN "FILLED" ELSE "LIVE",
     size_matched |-> IF order_type = "MARKET" THEN size ELSE 0]

\* _save_pending_order: the INSERT; status, price_adjustment_count,
\* last_price_adjustment and created_at take the column defaults.
\* created_order_id, adjusted_at and rejected are not columns: they keep the
\* order id the row was created with, the hours at which its price
\* adjustments were recorded and, once the exchange has rejected a
\* submission for the row, the price_adjustment_count it had then, for the
\* properties that speak of them
pending_order_row(id, config, change, user_size, pricing, order_id) ==
    [id |-> id,
     user_wallet_address |-> config.user_wallet_address,
     target_trader_address |-> config.target_trader_address,
     market_id |-> change.market_id, token_id |-> change.token_id,
     order_side |-> change.action,
     target_size |-> user_size, target_price |-> change.avg_price,
     initial_price |-> pricing.price, current_price |-> pricing.price,
     clob_order_id |-> order_id, created_order_id |-> order_id,
     status |-> "pending", filled_size |-> None,
     price_adjustment_count |-> 0, last_price_adjustment |-> None,
     created_at |-> now, adjusted_at |-> <<>>, rejected |-> None]

RECURSIVE cycle_orders(_)
MonIdle ==
    [pc |-> "idle", configs |-> <<>>, config |-> <<>>, current_positions |-> EmptyPositions,
     last_snapshot |-> EmptyPositions, changes |-> <<>>,
     fetch_ok |-> TRUE, detected |-> <<>>, skipped |-> <<>>, submitted |-> <<>>, failed |-> <<>>,
     cancelled |-> {}, saved |-> FALSE, cycle |-> <<>>, monitored |-> <<>>, raised |-> <<>>,
     attempts |-> <<>>]

\* the most rows a cycle can add to pending_copy_orders: for every enabled
\* config the events of its trader, the fetch succeeding or not
cycle_orders(configs) ==
    IF configs = <<>> THEN 0
    ELSE LET trader_address == copy_trading_config[Head(configs)].target_trader_address
             last_snapshot == get_last_snapshot(trader_address)
             fetched == Len(detect_position_changes(last_snapshot, fetch_trader_positions(trader_address, TRUE)))
             failed == Len(detect_position_changes(last_snapshot, fetch_trader_positions(trader_address, FALSE)))
         IN  (IF fetched > failed THEN fetched ELSE failed) + cycle_orders(Tail(configs))

\* monitor_positions up to its loop: load the enabled configs; with none, return
monitor_positions ==
    /\ mon.pc = "idle"
    /\ env.cycles < env.max_cycles
    /\ Len(pending_copy_orders) + cycle_orders(get_active_configs) <= env.max_orders
    /\ env' = [env EXCEPT !.cycles = @ + 1]
    /\ mon' = IF get_active_configs = <<>> THEN MonIdle
              ELSE LET configs == [i \in 1..Len(get_active_configs) |-> copy_trading_config[get_active_configs[i]]]
                   IN  [MonIdle EXCEPT !.pc = "configs", !.configs = configs, !.cycle = configs]
    /\ UNCHANGED <<now, trader_positions, copy_trading_config, position_snapshots, pending_copy_orders, executed_copy_trades, exchange, mgr, pin, pout>>

\* _monitor_trader up to its loop: fetch, last snapshot, detection
monitor_trader ==
    /\ mon.pc = "configs"
    /\ mon.configs # <<>>
    /\ \E ok \in BOOLEAN :
        LET config == Head(mon.configs)
            trader_address == config.target_trader_address
            current_positions == fetch_trader_positions(trader_address, ok)
            last_snapshot == get_last_snapshot(trader_address)
            changes == detect_position_changes(last_snapshot, current_positions)
        IN  mon' = [MonIdle EXCEPT !.pc = "changes", !.configs = Tail(mon.configs), !.config = <<config>>,
                                   !.current_positions = current_positions, !.last_snapshot = last_snapshot,
                                   !.changes = changes, !.fetch_ok = ok, !.detected = changes,
                                   !.cycle = mon.cycle, !.monitored = Append(mon.monitored, config),
                                   !.raised = mon.raised,
                                   !.attempts = Append(mon.attempts,
                                       [config |-> config, fetch_ok |-> ok, changes |-> changes])]
    /\ UNCHANGED <<now, trader_positions, copy_trading_config, position_snapshots, pending_copy_orders, executed_copy_trades, exchange, mgr, env, pin, pout>>

\* _execute_copy_trade, first part: sizing, the minimum, and for a SELL
\* _cancel_pending_buy_orders, whose UPDATE does not look at what
\* cancel_order returned
execute_copy_trade ==
    /\ mon.pc = "changes"
    /\ mon.changes # <<>>
    /\ LET change == Head(mon.changes)
           config == Val(mon.config)
           user_size == change.size_change * config.copy_percentage
           rows == pending_buy_orders(config.user_wallet_address, change.market_id, change.token_id)
       IN  IF notional_below_min(user_size, change.avg_price) THEN
               /\ mon' = [mon EXCEPT !.changes = Tail(@), !.skipped = Append(@, change)]
               /\ UNCHANGED <<pending_copy_orders, exchange, env>>
           ELSE IF change.action = "SELL" THEN
               \E accepted \in SUBSET clob_ids(rows) :
                   /\ env.cancel_failures + live_orders(clob_ids(rows) \ accepted) <= MaxCancelFailures
                   /\ env' = [env EXCEPT !.cancel_failures = @ + live_orders(clob_ids(rows) \ accepted)]
                   /\ exchange' = cancel_on_exchange(exchange, clob_ids(rows), accepted)
                   /\ pending_copy_orders' = [i \in 1..Len(pending_copy_orders) |->
                          IF i \in rows THEN [pending_copy_orders[i] EXCEPT !.status = "cancelled"]
                          ELSE pending_copy_orders[i]]
                   /\ mon' = [mon EXCEPT !.pc = "order", !.cancelled = @ \cup rows]
           ELSE
               /\ mon' = [mon EXCEPT !.pc = "order"]
               /\ UNCHANGED <<pending_copy_orders, exchange, env>>
    /\ UNCHANGED <<now, trader_positions, copy_trading_config, position_snapshots, executed_copy_trades, mgr, pin, pout>>

\* _execute_copy_trade, second part: market data, price at hours_elapsed = 0,
\* the order, the row; an exception leaves the event to the except of
\* _monitor_trader's loop, which logs it and goes on
execute_copy_trade_order ==
    /\ mon.pc = "order"
    /\ \E book \in Books, posted \in BOOLEAN :
        LET change == Head(mon.changes)
            config == Val(mon.config)
            user_size == change.size_change * config.copy_percentage
            market_data == get_market_data(book)
            pricing == calculate_optimal_price(change.avg_price, change.action, market_data, 0)
            order_id == Len(exchange) + 1
            order == IF pricing.order_type = "MARKET"
                     THEN exchange_order("MARKET", change.token_id, change.action, user_size, change.avg_price)
                     ELSE exchange_order("LIMIT", change.token_id, change.action, user_size, Val(pricing.price))
        IN  IF pricing.exc # "none" \/ ~posted THEN
                /\ mon' = [mon EXCEPT !.pc = "changes", !.changes = Tail(@), !.failed = Append(@, change)]
                /\ UNCHANGED <<pending_copy_orders, exchange>>
            ELSE
                /\ exchange' = Append(exchange, order)
                /\ pending_copy_orders' = Append(pending_copy_orders,
                       pending_order_row(Len(pending_copy_orders) + 1, config, change, user_size, pricing, Some(order_id)))
                /\ mon' = [mon EXCEPT !.pc = "changes", !.changes = Tail(@), !.submitted = Append(@, change)]
    /\ UNCHANGED <<now, trader_positions, copy_trading_config, position_snapshots, executed_copy_trades, mgr, env, pin, pout>>

\* _monitor_trader with _save_snapshot inside the loop's body: the snapshot
\* is written while events are still to be attempted
monitor_trader_save_early ==
    /\ mon.pc = "changes"
    /\ position_snapshots' = save_snapshot(Val(mon.config).target_trader_address, mon.current_positions)
    /\ mon' = [mon EXCEPT !.pc = IF mon.configs = <<>> THEN "idle" ELSE "configs", !.saved = TRUE]
    /\ UNCHANGED <<now, trader_positions, copy_trading_config, pending_copy_orders, executed_copy_trades, exchange, mgr, env, pin, pout>>

\* _monitor_trader after its loop: _save_snapshot, then the next config of
\* monitor_positions or the end of the cycle
monitor_trader_save ==
    /\ mon.pc = "changes"
    /\ mon.changes = <<>>
    /\ position_snapshots' = save_snapshot(Val(mon.config).target_trader_address, mon.current_positions)
    /\ mon' = [mon EXCEPT !.pc = IF mon.configs = <<>> THEN "idle" ELSE "configs", !.saved = TRUE]
    /\ UNCHANGED <<now, trader_positions, copy_trading_config, pending_copy_orders, executed_copy_trades, exchange, mgr, env, pin, pout>>

\* the next step of monitor_positions after a config
next_config(configs) == IF configs = <<>> THEN "idle" ELSE "configs"

\* the same without the try around _monitor_trader: the exception leaves the
\* loop of monitor_positions and the cycle ends there
monitor_trader_raises_ends_cycle ==
    /\ env.db_errors < env.max_db_errors
    /\ \/ /\ mon.pc = "configs"
          /\ mon.configs # <<>>
          /\ mon' = [MonIdle EXCEPT !.cycle = mon.cycle,
                                    !.monitored = Append(mon.monitored, Head(mon.configs)),
                                    !.raised = Append(mon.raised, Head(mon.configs)),
                                    !.attempts = mon.attempts]
       \/ /\ mon.pc = "changes"
          /\ mon.changes = <<>>
          /\ mon' = [mon EXCEPT !.pc = "idle", !.configs = <<>>, !.raised = Append(@, Val(mon.config))]
    /\ env' = [env EXCEPT !.db_errors = @ + 1]
    /\ UNCHANGED <<now, trader_positions, copy_trading_config, position_snapshots, pending_copy_orders, executed_copy_trades, exchange, mgr, pin, pout>>

\* _monitor_trader raises on a database call: in _get_last_snapshot, before
\* anything is done, or in _save_snapshot, after the loop; the except of
\* monitor_positions logs it and continues with the next config
monitor_trader_raises ==
    /\ env.db_errors < env.max_db_errors
    /\ \/ /\ mon.pc = "configs"
          /\ mon.configs # <<>>
          /\ mon' = [MonIdle EXCEPT !.pc = next_config(Tail(mon.configs)), !.configs = Tail(mon.configs),
                                    !.cycle = mon.cycle,
                                    !.monitored = Append(mon.monitored, Head(mon.configs)),
                                    !.raised = Append(mon.raised, Head(mon.configs)),
                                    !.attempts = mon.attempts]
       \/ /\ mon.pc = "changes"
          /\ mon.changes = <<>>
          /\ mon' = [mon EXCEPT !.pc = next_config(mon.configs), !.raised = Append(@, Val(mon.config))]
    /\ env' = [env EXCEPT !.db_errors = @ + 1]
    /\ UNCHANGED <<now, trader_positions, copy_trading_config, position_snapshots, pending_copy_orders, executed_copy_trades, exchange, mgr, pin, pout>>

(***************************************************************************)
(* The API                                                                 *)
(***************************************************************************)

\* os.getenv("POLYMARKET_WALLET_ADDRESS")
POLYMARKET_WALLET_ADDRESS == "u1"

\* the endpoint with the second UPDATE selecting by trader only, whatever the
\* wallet of the row
disable_copy_trading_any_wallet ==
    /\ env.disables < env.max_disables
    /\ \E target_trader \in DOMAIN trader_positions :
        /\ copy_trading_config' = [i \in 1..Len(copy_trading_config) |->
               IF /\ copy_trading_config[i].user_wallet_address = POLYMARKET_WALLET_ADDRESS
                  /\ copy_trading_config[i].target_trader_address = target_trader
               THEN [copy_trading_config[i] EXCEPT !.enabled = FALSE]
               ELSE copy_trading_config[i]]
        /\ pending_copy_orders' = [i \in 1..Len(pending_copy_orders) |->
               IF /\ pending_copy_orders[i].target_trader_address = target_trader
                  /\ open_status(pending_copy_orders[i])
               THEN [pending_copy_orders[i] EXCEPT !.status = "cancelled"]
               ELSE pending_copy_orders[i]]
        /\ env' = [env EXCEPT !.disables = @ + 1, !.last_disabled = Some(target_trader)]
    /\ UNCHANGED <<now, trader_positions, position_snapshots, executed_copy_trades, exchange, mon, mgr, pin, pout>>

\* POST /api/copy-trading/disable: the two UPDATEs of one transaction
disable_copy_trading ==
    /\ env.disables < env.max_disables
    /\ \E target_trader \in DOMAIN trader_positions :
        /\ copy_trading_config' = [i \in 1..Len(copy_trading_config) |->
               IF /\ copy_trading_config[i].user_wallet_address = POLYMARKET_WALLET_ADDRESS
                  /\ copy_trading_config[i].target_trader_address = target_trader
               THEN [copy_trading_config[i] EXCEPT !.enabled = FALSE]
               ELSE copy_trading_config[i]]
        /\ pending_copy_orders' = [i \in 1..Len(pending_copy_orders) |->
               IF /\ pending_copy_orders[i].user_wallet_address = POLYMARKET_WALLET_ADDRESS
                  /\ pending_copy_orders[i].target_trader_address = target_trader
                  /\ open_status(pending_copy_orders[i])
               THEN [pending_copy_orders[i] EXCEPT !.status = "cancelled"]
               ELSE pending_copy_orders[i]]
        /\ env' = [env EXCEPT !.disables = @ + 1, !.last_disabled = Some(target_trader)]
    /\ UNCHANGED <<now, trader_positions, position_snapshots, executed_copy_trades, exchange, mon, mgr, pin, pout>>

(***************************************************************************)
(* The pending order manager                                               *)
(***************************************************************************)

\* signalled: the rows of the pass for which the strategy chose a MARKET
\* order; priced: for those it returned a LIMIT price for, the price and what
\* the comparison with current_price gave; commands: the cancel and post
\* calls the pass has made on the exchange, and whether they went through
MgrIdle ==
    [pc |-> "idle", orders |-> <<>>, managed |-> {}, loaded |-> <<>>, raised |-> {}, reported |-> {},
     signalled |-> {}, priced |-> {}, commands |-> <<>>]

\* the open rows with ORDER BY created_at DESC
get_pending_orders_newest_first ==
    SortSeq(SelectSeq(pending_copy_orders, open_status), LAMBDA a, b : a.created_at > b.created_at)

\* _get_pending_orders: the open rows, ORDER BY created_at ASC, as dicts
get_pending_orders ==
    SortSeq(SelectSeq(pending_copy_orders, open_status), LAMBDA a, b : a.created_at < b.created_at)

\* manage_pending_orders up to its loop
manage_pending_orders(m) ==
    /\ mgr[m].pc = "idle"
    /\ mgr' = [mgr EXCEPT ![m] = IF get_pending_orders = <<>> THEN MgrIdle
                                 ELSE [MgrIdle EXCEPT !.pc = "orders", !.orders = get_pending_orders,
                                                      !.loaded = get_pending_orders]]
    /\ UNCHANGED <<now, trader_positions, copy_trading_config, position_snapshots, pending_copy_orders, executed_copy_trades, exchange, mon, env, pin, pout>>

\* get_order_status: the exchange's answer, or None when the call raises
\* (as it does for an order id of None)
get_order_status(order_id, answered) ==
    IF order_id = None \/ ~answered THEN None
    ELSE Some([status |-> exchange[Val(order_id)].state, filled_size |-> exchange[Val(order_id)].size_matched])

\* _mark_order_filled: UPDATE ... WHERE id = :order_id, then the INSERT into
\* executed_copy_trades, both from the dict the pass loaded
mark_order_filled_rows(order, status) ==
    [i \in 1..Len(pending_copy_orders) |->
        IF i = order.id
        THEN [pending_copy_orders[i] EXCEPT !.status = "filled", !.filled_size = Some(status.filled_size)]
        ELSE pending_copy_orders[i]]

\* the INSERT with slippage taken the other way round, target minus current
executed_trade_reversed(order, status) ==
    [pending_id |-> order.id,
     user_wallet_address |-> order.user_wallet_address,
     target_trader_address |-> order.target_trader_address,
     market_id |-> order.market_id, token_id |-> order.token_id, order_side |-> order.order_side,
     size |-> status.filled_size, price |-> Val(order.current_price),
     target_price |-> order.target_price,
     slippage |-> order.target_price - Val(order.current_price),
     clob_order_id |-> order.clob_order_id]

executed_trade(order, status) ==
    [pending_id |-> order.id,
     user_wallet_address |-> order.user_wallet_address,
     target_trader_address |-> order.target_trader_address,
     market_id |-> order.market_id, token_id |-> order.token_id, order_side |-> order.order_side,
     size |-> status.filled_size, price |-> Val(order.current_price),
     target_price |-> order.target_price,
     slippage |-> Val(order.current_price) - order.target_price,
     clob_order_id |-> order.clob_order_id]

\* the UPDATE without price_adjustment_count = price_adjustment_count + 1
recreated_rows_same_count(order, new_order_id, new_price) ==
    [i \in 1..Len(pending_copy_orders) |->
        IF i = order.id
        THEN [pending_copy_orders[i] EXCEPT !.clob_order_id = Some(new_order_id),
                                            !.current_price = Some(new_price),
                                            !.last_price_adjustment = Some(now),
                                            !.adjusted_at = Append(@, now)]
        ELSE pending_copy_orders[i]]

\* the UPDATE of _recreate_order_with_new_price
recreated_rows(order, new_order_id, new_price) ==
    [i \in 1..Len(pending_copy_orders) |->
        IF i = order.id
        THEN [pending_copy_orders[i] EXCEPT !.clob_order_id = Some(new_order_id),
                                            !.current_price = Some(new_price),
                                            !.price_adjustment_count = @ + 1,
                                            !.last_price_adjustment = Some(now),
                                            !.adjusted_at = Append(@, now)]
        ELSE pending_copy_orders[i]]

\* post_order raises in _convert_to_market_order or
\* _recreate_order_with_new_price: the except logs it, no UPDATE is made
rejected_rows(order) ==
    [i \in 1..Len(pending_copy_orders) |->
        IF i = order.id
        THEN [pending_copy_orders[i] EXCEPT !.rejected = IF @ = None THEN Some(pending_copy_orders[i].price_adjustment_count) ELSE @]
        ELSE pending_copy_orders[i]]

\* the UPDATE of _convert_to_market_order
converted_rows(order, new_order_id) ==
    [i \in 1..Len(pending_copy_orders) |->
        IF i = order.id
        THEN [pending_copy_orders[i] EXCEPT !.clob_order_id = Some(new_order_id)]
        ELSE pending_copy_orders[i]]

\* abs(pricing['price'] - current_price) > 0.001
PRICE_CHANGE_THRESHOLD == 100000

price_changed(new_price, current_price) ==
    \/ new_price - current_price > PRICE_CHANGE_THRESHOLD
    \/ current_price - new_price > PRICE_CHANGE_THRESHOLD

\* the same comparison as the floats make it: two prices exactly 0.001 apart
\* in decimals have a float difference a rounding error above or below 0.001
\* (abs(0.4006 - 0.4016) is 0.0010000000000000009), so the test goes either way
float_price_changed(new_price, current_price) ==
    IF new_price - current_price = PRICE_CHANGE_THRESHOLD \/ current_price - new_price = PRICE_CHANGE_THRESHOLD
    THEN BOOLEAN
    ELSE {price_changed(new_price, current_price)}

\* the calls _convert_to_market_order and _recreate_order_with_new_price make
\* on the exchange for a loaded row: cancel_order when the row has an order
\* id, then post_order
replace_commands(order, order_type, price, accepted, posted) ==
    (IF order.clob_order_id = None THEN <<>>
     ELSE <<[command |-> "cancel", id |-> order.id, order_id |-> order.clob_order_id, ok |-> accepted]>>)
    \o <<[command |-> "post", id |-> order.id, order_type |-> order_type, size |-> order.target_size,
          price |-> price, ok |-> posted]>>

\* the manager's call of should_adjust_price for a loaded row
order_should_adjust(order) ==
    should_adjust_price(now - order.created_at,
                        IF order.last_price_adjustment = None THEN None
                        ELSE Some(now - Val(order.last_price_adjustment)),
                        order.price_adjustment_count)

\* one turn of the loop of manage_pending_orders: _manage_single_order on the
\* next loaded row, with _mark_order_filled or _adjust_order_price and the
\* cancel-and-replace it leads to; whatever is raised is caught and logged
manage_single_order(m) ==
    /\ mgr[m].pc = "orders"
    /\ LET order == Head(mgr[m].orders)
           rest == Tail(mgr[m].orders)
           hours_elapsed == now - order.created_at
           after == [mgr[m] EXCEPT !.orders = rest, !.pc = IF rest = <<>> THEN "idle" ELSE "orders",
                                   !.managed = @ \cup {<<order.id, hours_elapsed>>}]
           after_raise == [after EXCEPT !.raised = @ \cup {order.id}]
           after_filled == [after EXCEPT !.reported = @ \cup {order.id}]
           old_ids == IF order.clob_order_id = None THEN {} ELSE {Val(order.clob_order_id)}
           new_order_id == Len(exchange) + 1
       IN  \E answered \in BOOLEAN :
           LET status == get_order_status(order.clob_order_id, answered)
           IN  IF status = None THEN
                   /\ mgr' = [mgr EXCEPT ![m] = after]
                   /\ UNCHANGED <<pending_copy_orders, executed_copy_trades, exchange, env>>
               ELSE IF Val(status).status = "FILLED" THEN
                   \/ /\ pending_copy_orders' = mark_order_filled_rows(order, Val(status))
                      /\ executed_copy_trades' = Append(executed_copy_trades, executed_trade(order, Val(status)))
                      /\ mgr' = [mgr EXCEPT ![m] = after_filled]
                      /\ UNCHANGED <<exchange, env>>
                   \/ \* _mark_order_filled raises before its commit
                      /\ env.db_errors < env.max_db_errors
                      /\ env' = [env EXCEPT !.db_errors = @ + 1]
                      /\ mgr' = [mgr EXCEPT ![m] = [after_raise EXCEPT !.reported = @ \cup {order.id}]]
                      /\ UNCHANGED <<pending_copy_orders, executed_copy_trades, exchange>>
               ELSE IF ~order_should_adjust(order) THEN
                   /\ mgr' = [mgr EXCEPT ![m] = after]
                   /\ UNCHANGED <<pending_copy_orders, executed_copy_trades, exchange, env>>
               ELSE \E book \in Books :
                   LET pricing == calculate_optimal_price(order.target_price, order.order_side,
                                                          get_market_data(book), hours_elapsed)
                   IN  IF pricing.exc # "none" THEN
                           \* calculate_optimal_price raises
                           /\ mgr' = [mgr EXCEPT ![m] = [after_raise EXCEPT !.signalled =
                                          IF pricing.order_type = "MARKET" THEN @ \cup {order.id} ELSE @]]
                           /\ UNCHANGED <<pending_copy_orders, executed_copy_trades, exchange, env>>
                       ELSE \E changed \in (IF pricing.order_type = "MARKET" THEN {TRUE}
                                             ELSE float_price_changed(Val(pricing.price), Val(order.current_price))) :
                       LET priced == [after EXCEPT !.priced =
                                         IF pricing.order_type = "MARKET" THEN @
                                         ELSE @ \cup {[id |-> order.id, price |-> Val(pricing.price), changed |-> changed]}]
                       IN
                       IF changed THEN
                           \* _convert_to_market_order or _recreate_order_with_new_price
                           \E accepted \in BOOLEAN, posted \in BOOLEAN :
                               LET cancelled == cancel_on_exchange(exchange, old_ids, IF accepted THEN old_ids ELSE {})
                                   cancel_failed == [env EXCEPT !.cancel_failures =
                                                        IF \E o \in old_ids : exchange[o].state = "LIVE" /\ ~accepted
                                                        THEN @ + 1 ELSE @]
                                   new_order == IF pricing.order_type = "MARKET"
                                                THEN exchange_order("MARKET", order.token_id, order.order_side,
                                                                    order.target_size, order.target_price)
                                                ELSE exchange_order("LIMIT", order.token_id, order.order_side,
                                                                    order.target_size, Val(pricing.price))
                                   new_rows == IF pricing.order_type = "MARKET"
                                               THEN converted_rows(order, new_order_id)
                                               ELSE recreated_rows(order, new_order_id, Val(pricing.price))
                               IN  /\ exchange' = IF posted THEN Append(cancelled, new_order) ELSE cancelled
                                   /\ pending_copy_orders' = IF posted THEN new_rows ELSE rejected_rows(order)
                                   /\ mgr' = [mgr EXCEPT ![m] = [priced EXCEPT
                                                  !.signalled = IF pricing.order_type = "MARKET" THEN @ \cup {order.id} ELSE @,
                                                  !.commands = @ \o replace_commands(order, pricing.order_type,
                                                      IF pricing.order_type = "MARKET" THEN order.target_price
                                                      ELSE Val(pricing.price), accepted, posted)]]
                                   /\ cancel_failed.cancel_failures <= MaxCancelFailures
                                   /\ env' = cancel_failed
                                   /\ UNCHANGED executed_copy_trades
                       ELSE
                           /\ mgr' = [mgr EXCEPT ![m] = priced]
                           /\ UNCHANGED <<pending_copy_orders, executed_copy_trades, exchange, env>>
    /\ UNCHANGED <<now, trader_positions, copy_trading_config, position_snapshots, mon, pin, pout>>

(***************************************************************************)
(* The environment: the traders, the exchange, the clock                   *)
(***************************************************************************)

\* a target trader opens, resizes or closes a position; only the fetch of
\* _monitor_trader reads the positions, so the trades are taken between the
\* runs of the jobs
trader_trades ==
    /\ env.trades < env.max_trades
    /\ mon.pc = "idle"
    /\ \A m \in DOMAIN mgr : mgr[m].pc = "idle"
    /\ \E t \in DOMAIN trader_positions, k \in AllKeys :
        \/ /\ k \in DOMAIN trader_positions[t]
           /\ trader_positions' = [trader_positions EXCEPT ![t] = [x \in DOMAIN @ \ {k} |-> @[x]]]
        \/ \E h \in Holdings :
              LET pos == [market_id |-> k[1], token_id |-> k[2], size |-> h[1], avg_price |-> h[2]]
              IN  /\ (k \in DOMAIN trader_positions[t] => trader_positions[t][k] # pos)
                  /\ trader_positions' = [trader_positions EXCEPT ![t] =
                         [x \in DOMAIN @ \cup {k} |-> IF x = k THEN pos ELSE @[x]]]
    /\ env' = [env EXCEPT !.trades = @ + 1]
    /\ UNCHANGED <<now, copy_trading_config, position_snapshots, pending_copy_orders, executed_copy_trades, exchange, mon, mgr, pin, pout>>

\* the exchange matches a resting order in full
exchange_fills ==
    /\ \E o \in 1..Len(exchange) :
        /\ exchange[o].state = "LIVE"
        /\ exchange' = [exchange EXCEPT ![o].state = "FILLED", ![o].size_matched = exchange[o].size]
    /\ UNCHANGED <<now, trader_positions, copy_trading_config, position_snapshots, pending_copy_orders, executed_copy_trades, mon, mgr, env, pin, pout>>

\* time passes between the runs of the jobs; what mgr remembers of the last
\* pass is of the hour that ends
tick ==
    /\ mon.pc = "idle"
    /\ \A m \in DOMAIN mgr : mgr[m].pc = "idle"
    /\ \E d \in TickSteps :
        /\ now + d <= env.max_time
        /\ now' = now + d
    /\ mgr' = [m \in DOMAIN mgr |-> MgrIdle]
    /\ UNCHANGED <<trader_positions, copy_trading_config, position_snapshots, pending_copy_orders, executed_copy_trades, exchange, mon, env, pin, pout>>

NoPricing == [kind |-> "none"]

Init ==
    /\ now = 0
    /\ trader_positions = [t \in {"T1"} |-> EmptyPositions]
    /\ copy_trading_config = <<[user_wallet_address |-> "u1", target_trader_address |-> "T1",
                                copy_percentage |-> 100, enabled |-> TRUE]>>
    /\ position_snapshots = [t \in {"T1"} |-> EmptyPositions]
    /\ pending_copy_orders = <<>>
    /\ executed_copy_trades = <<>>
    /\ exchange = <<>>
    /\ mon = MonIdle
    /\ mgr = [m \in {1} |-> MgrIdle]
    /\ env = [trades |-> 0, cycles |-> 0, max_trades |-> MaxTrades, max_cycles |-> MaxCycles, max_time |-> 0,
              cancel_failures |-> 0, db_errors |-> 0, max_db_errors |-> 0,
              disables |-> 0, max_disables |-> 0, last_disabled |-> None, max_orders |-> MaxOrders]
    /\ pin = NoPricing
    /\ pout = NoPricing

Next ==
    \/ monitor_positions
    \/ monitor_trader
    \/ execute_copy_trade
    \/ execute_copy_trade_order
    \/ monitor_trader_save
    \/ manage_pending_orders(1)
    \/ manage_single_order(1)
    \/ trader_trades
    \/ exchange_fills

\* the two jobs, the traders and the exchange, within one hour
Spec == Init /\ [][Next]_vars

InitClock ==
    /\ now = 0
    /\ trader_positions = [t \in {"T1"} |-> EmptyPositions]
    /\ copy_trading_config = <<[user_wallet_address |-> "u1", target_trader_address |-> "T1",
                                copy_percentage |-> 100, enabled |-> TRUE]>>
    /\ position_snapshots = [t \in {"T1"} |-> EmptyPositions]
    /\ pending_copy_orders = <<>>
    /\ executed_copy_trades = <<>>
    /\ exchange = <<>>
    /\ mon = MonIdle
    /\ mgr = [m \in {1} |-> MgrIdle]
    /\ env = [trades |-> 0, cycles |-> 0, max_trades |-> ClockTrades, max_cycles |-> ClockCycles, max_time |-> MaxTime,
              cancel_failures |-> 0, db_errors |-> 0, max_db_errors |-> 0,
              disables |-> 0, max_disables |-> 0, last_disabled |-> None, max_orders |-> MaxOrders]
    /\ pin = NoPricing
    /\ pout = NoPricing

NextClock ==
    \/ monitor_positions
    \/ monitor_trader
    \/ execute_copy_trade
    \/ execute_copy_trade_order
    \/ monitor_trader_save
    \/ manage_pending_orders(1)
    \/ manage_single_order(1)
    \/ trader_trades
    \/ exchange_fills
    \/ tick

\* the same over the hours
SpecClock == InitClock /\ [][NextClock]_vars

(***************************************************************************)
(* The life of copied orders: the tables as a first cycle leaves them, one  *)
(* position of trader T1 copied for u1, then the manager over the hours     *)
(***************************************************************************)

\* the config of Init
Config1 ==
    [user_wallet_address |-> "u1", target_trader_address |-> "T1", copy_percentage |-> 100, enabled |-> TRUE]

\* the position key k of trader T1 with holding h
position_of(k, h) == [market_id |-> k[1], token_id |-> k[2], size |-> h[1], avg_price |-> h[2]]

\* the row _execute_copy_trade saves for the NEW_POSITION event of pos, as
\* row and exchange order number id
copied_row(id, pos) ==
    LET change == change_event("NEW_POSITION", "BUY", pos, pos.size, pos.avg_price)
        pricing == calculate_optimal_price(pos.avg_price, "BUY", get_market_data([kind |-> "error", bid |-> 0, ask |-> 0]), 0)
    IN  pending_order_row(id, Config1, change, pos.size * Config1.copy_percentage, pricing, Some(id))

copied_order(pos) ==
    exchange_order("LIMIT", pos.token_id, "BUY", pos.size * Config1.copy_percentage, pos.avg_price)

InitLife ==
    /\ now = 0
    /\ \E h \in {<<100, Milli(400)>>} \cap Holdings :
          LET pos == position_of(<<"m1", "t1">>, h)
          IN  /\ trader_positions = [t \in {"T1"} |-> (<<"m1", "t1">> :> pos)]
              /\ position_snapshots = [t \in {"T1"} |-> (<<"m1", "t1">> :> pos)]
              /\ pending_copy_orders = <<copied_row(1, pos)>>
              /\ exchange = <<copied_order(pos)>>
    /\ copy_trading_config = <<Config1>>
    /\ executed_copy_trades = <<>>
    /\ mon = MonIdle
    /\ mgr = [m \in {1} |-> MgrIdle]
    /\ env = [trades |-> 0, cycles |-> 0, max_trades |-> 0, max_cycles |-> 0, max_time |-> MaxLife,
              cancel_failures |-> 0, db_errors |-> 0, max_db_errors |-> 0,
              disables |-> 0, max_disables |-> 0, last_disabled |-> None, max_orders |-> MaxOrders]
    /\ pin = NoPricing
    /\ pout = NoPricing

NextLife ==
    \/ manage_pending_orders(1)
    \/ manage_single_order(1)
    \/ exchange_fills
    \/ tick

SpecLife == InitLife /\ [][NextLife]_vars

(***************************************************************************)
(* Several pairings: u1 copies T1 and T2, u2 copies T1. An earlier copy of  *)
(* T1's first position for u1 is filled; T1 has since opened a second      *)
(* position and T2 holds one that has not been seen yet. The monitor and    *)
(* the disable endpoint, without the manager                                *)
(***************************************************************************)

Pairings ==
    << Config1,
       [user_wallet_address |-> "u2", target_trader_address |-> "T1", copy_percentage |-> 100, enabled |-> TRUE],
       [user_wallet_address |-> "u1", target_trader_address |-> "T2", copy_percentage |-> 100, enabled |-> TRUE] >>

\* the exchange's answer for an order of the size that is filled in full
filled_status(size) == [status |-> "FILLED", filled_size |-> size]

InitPairings ==
    /\ now = 0
    /\ LET first == position_of(<<"m1", "t1">>, <<100, Milli(400)>>)
           second == position_of(<<"m2", "t2">>, <<100, Milli(400)>>)
           other == position_of(<<"m2", "t2">>, <<200, Milli(550)>>)
           row == [copied_row(1, first) EXCEPT !.status = "filled", !.filled_size = Some(copied_order(first).size)]
       IN  /\ trader_positions = [t \in {"T1", "T2"} |->
                  IF t = "T1" THEN (<<"m1", "t1">> :> first) @@ (<<"m2", "t2">> :> second)
                  ELSE (<<"m2", "t2">> :> other)]
           /\ position_snapshots = [t \in {"T1", "T2"} |->
                  IF t = "T1" THEN (<<"m1", "t1">> :> first) ELSE EmptyPositions]
           /\ pending_copy_orders = <<row>>
           /\ executed_copy_trades = <<executed_trade(copied_row(1, first), filled_status(copied_order(first).size))>>
           /\ exchange = <<[copied_order(first) EXCEPT !.state = "FILLED", !.size_matched = copied_order(first).size]>>
    /\ copy_trading_config = Pairings
    /\ mon = MonIdle
    /\ mgr = [m \in {1} |-> MgrIdle]
    /\ env = [trades |-> 0, cycles |-> 0, max_trades |-> 0, max_cycles |-> PairingCycles, max_time |-> 0,
              cancel_failures |-> 0, db_errors |-> 0, max_db_errors |-> MaxDbErrors,
              disables |-> 0, max_disables |-> MaxDisables, last_disabled |-> None, max_orders |-> PairingOrders]
    /\ pin = NoPricing
    /\ pout = NoPricing

NextPairings ==
    \/ monitor_positions
    \/ monitor_trader
    \/ monitor_trader_raises
    \/ execute_copy_trade
    \/ execute_copy_trade_order
    \/ monitor_trader_save
    \/ exchange_fills
    \/ disable_copy_trading

SpecPairings == InitPairings /\ [][NextPairings]_vars

(***************************************************************************)
(* The manager's queue: two copied orders of T1, the first three hours      *)
(* older than the second, and the manager with the exchange                 *)
(***************************************************************************)

\* the hour of InitQueue, three hours after its first row was created, and
\* the hour up to which the queue is followed
QueueTime == 3
QueueEnd == 6

InitQueue ==
    /\ now = QueueTime
    /\ LET first == position_of(<<"m1", "t1">>, <<100, Milli(400)>>)
           second == position_of(<<"m2", "t2">>, <<200, Milli(550)>>)
       IN  /\ trader_positions = [t \in {"T1"} |-> (<<"m1", "t1">> :> first) @@ (<<"m2", "t2">> :> second)]
           /\ position_snapshots = [t \in {"T1"} |-> (<<"m1", "t1">> :> first) @@ (<<"m2", "t2">> :> second)]
           /\ pending_copy_orders = <<[copied_row(1, first) EXCEPT !.created_at = 0], copied_row(2, second)>>
           /\ exchange = <<copied_order(first), copied_order(second)>>
    /\ copy_trading_config = <<Config1>>
    /\ executed_copy_trades = <<>>
    /\ mon = MonIdle
    /\ mgr = [m \in {1} |-> MgrIdle]
    /\ env = [trades |-> 0, cycles |-> 0, max_trades |-> 0, max_cycles |-> 0, max_time |-> QueueEnd,
              cancel_failures |-> 0, db_errors |-> 0, max_db_errors |-> MaxDbErrors,
              disables |-> 0, max_disables |-> 0, last_disabled |-> None, max_orders |-> MaxOrders]
    /\ pin = NoPricing
    /\ pout = NoPricing

NextQueue ==
    \/ manage_pending_orders(1)
    \/ manage_single_order(1)
    \/ exchange_fills
    \/ tick

SpecQueue == InitQueue /\ [][NextQueue]_vars

(***************************************************************************)
(* Two runs of manage_pending_orders at once over the queue of two copied   *)
(* orders: the job of a second process on the same database, or a call of   *)
(* the coroutine beside the scheduled one                                   *)
(***************************************************************************)

InitOverlap ==
    /\ now = 0
    /\ LET first == position_of(<<"m1", "t1">>, <<100, Milli(400)>>)
           second == position_of(<<"m2", "t2">>, <<200, Milli(550)>>)
       IN  /\ trader_positions = [t \in {"T1"} |-> (<<"m1", "t1">> :> first) @@ (<<"m2", "t2">> :> second)]
           /\ position_snapshots = [t \in {"T1"} |-> (<<"m1", "t1">> :> first) @@ (<<"m2", "t2">> :> second)]
           /\ pending_copy_orders = <<copied_row(1, first), copied_row(2, second)>>
           /\ exchange = <<copied_order(first), copied_order(second)>>
    /\ copy_trading_config = <<Config1>>
    /\ executed_copy_trades = <<>>
    /\ mon = MonIdle
    /\ mgr = [m \in {1, 2} |-> MgrIdle]
    /\ env = [trades |-> 0, cycles |-> 0, max_trades |-> 0, max_cycles |-> 0, max_time |-> 0,
              cancel_failures |-> 0, db_errors |-> 0, max_db_errors |-> MaxDbErrors,
              disables |-> 0, max_disables |-> 0, last_disabled |-> None, max_orders |-> MaxOrders]
    /\ pin = NoPricing
    /\ pout = NoPricing

NextOverlap ==
    \/ manage_pending_orders(1)
    \/ manage_single_order(1)
    \/ manage_pending_orders(2)
    \/ manage_single_order(2)
    \/ exchange_fills

SpecOverlap == InitOverlap /\ [][NextOverlap]_vars

(***************************************************************************)
(* Partial fills: the copied order of SpecLife over its first six hours,    *)
(* with an exchange that may match half of a resting order                  *)
(***************************************************************************)

\* the exchange matches half of a resting order that has no match yet; the
\* order stays live and get_order_status reports the half as filled_size
exchange_fills_partly ==
    /\ \E o \in 1..Len(exchange) :
        /\ exchange[o].state = "LIVE"
        /\ exchange[o].size_matched = 0
        /\ exchange' = [exchange EXCEPT ![o].size_matched = exchange[o].size \div 2]
    /\ UNCHANGED <<now, trader_positions, copy_trading_config, position_snapshots, pending_copy_orders, executed_copy_trades, mon, mgr, env, pin, pout>>

InitFills ==
    /\ now = 0
    /\ LET pos == position_of(<<"m1", "t1">>, <<100, Milli(400)>>)
       IN  /\ trader_positions = [t \in {"T1"} |-> (<<"m1", "t1">> :> pos)]
           /\ position_snapshots = [t \in {"T1"} |-> (<<"m1", "t1">> :> pos)]
           /\ pending_copy_orders = <<copied_row(1, pos)>>
           /\ exchange = <<copied_order(pos)>>
    /\ copy_trading_config = <<Config1>>
    /\ executed_copy_trades = <<>>
    /\ mon = MonIdle
    /\ mgr = [m \in {1} |-> MgrIdle]
    /\ env = [trades |-> 0, cycles |-> 0, max_trades |-> 0, max_cycles |-> 0, max_time |-> MaxTime,
              cancel_failures |-> 0, db_errors |-> 0, max_db_errors |-> 0,
              disables |-> 0, max_disables |-> 0, last_disabled |-> None, max_orders |-> MaxOrders]
    /\ pin = NoPricing
    /\ pout = NoPricing

NextFills ==
    \/ manage_pending_orders(1)
    \/ manage_single_order(1)
    \/ exchange_fills
    \/ exchange_fills_partly
    \/ tick

SpecFills == InitFills /\ [][NextFills]_vars

(***************************************************************************)
(* Change detection on its own                                             *)
(***************************************************************************)

\* what a position of a snapshot may be: [size, avg_price], sizes from 0
DetectHoldings == { <<0, Milli(400)>>, <<2, Milli(400)>>, <<100, Milli(400)>>, <<100, Milli(550)>> }

\* the snapshots over the keys of AllKeys
Snapshots ==
    UNION { { [k \in keys |-> position_of(k, h[k])] : h \in [keys -> DetectHoldings] } : keys \in SUBSET AllKeys }

InitDetect ==
    /\ now = 0
    /\ trader_positions = [t \in {"T1"} |-> EmptyPositions]
    /\ copy_trading_config = <<>>
    /\ position_snapshots = [t \in {"T1"} |-> EmptyPositions]
    /\ pending_copy_orders = <<>>
    /\ executed_copy_trades = <<>>
    /\ exchange = <<>>
    /\ mon = MonIdle
    /\ mgr = [m \in {1} |-> MgrIdle]
    /\ env = [trades |-> 0, cycles |-> 0, max_trades |-> 0, max_cycles |-> 0, max_time |-> 0,
              cancel_failures |-> 0, db_errors |-> 0, max_db_errors |-> 0,
              disables |-> 0, max_disables |-> 0, last_disabled |-> None, max_orders |-> MaxOrders]
    /\ pin \in {[kind |-> "snapshots", old_snapshot |-> o, new_snapshot |-> n] : o \in Snapshots, n \in Snapshots}
    /\ pout = NoPricing

\* _detect_position_changes as _monitor_trader calls it
detect_changes ==
    /\ pin.kind = "snapshots"
    /\ pout.kind = "none"
    /\ pout' = [kind |-> "changes", changes |-> detect_position_changes(pin.old_snapshot, pin.new_snapshot)]
    /\ UNCHANGED <<sysvars, pin>>

NextDetect ==
    \/ detect_changes

SpecDetect == InitDetect /\ [][NextDetect]_vars

(***************************************************************************)
(* Pricing calls on their own                                              *)
(***************************************************************************)

Targets == {Milli(50), Milli(400), Milli(501), Milli(600), Milli(950)}

Sides == {"BUY", "SELL"}

\* the books of Books, and a two-sided book with a wide spread
PricingBooks == Books \cup {[kind |-> "quote", bid |-> Milli(400), ask |-> Milli(600)]}

other_side(order_side) == IF order_side = "BUY" THEN "SELL" ELSE "BUY"

\* the hours at which MARKET is returned: TIME_WINDOW_4 in the tight and the
\* normal strategy, TIME_WINDOW_3 in the wide one
ceiling(liquidity) == IF liquidity = "low" THEN TIME_WINDOW_3 ELSE TIME_WINDOW_4

InitPricing ==
    /\ now = 0
    /\ trader_positions = [t \in {"T1"} |-> EmptyPositions]
    /\ copy_trading_config = <<>>
    /\ position_snapshots = [t \in {"T1"} |-> EmptyPositions]
    /\ pending_copy_orders = <<>>
    /\ executed_copy_trades = <<>>
    /\ exchange = <<>>
    /\ mon = MonIdle
    /\ mgr = [m \in {1} |-> MgrIdle]
    /\ env = [trades |-> 0, cycles |-> 0, max_trades |-> 0, max_cycles |-> 0, max_time |-> 0,
              cancel_failures |-> 0, db_errors |-> 0, max_db_errors |-> 0,
              disables |-> 0, max_disables |-> 0, last_disabled |-> None, max_orders |-> MaxOrders]
    /\ pin \in {[kind |-> "call", target_price |-> t, order_side |-> s, book |-> b,
                  hours_elapsed |-> h, later |-> l] :
                     t \in Targets, s \in Sides, b \in PricingBooks,
                     h \in 0..MaxHours, l \in 0..MaxHours}
    /\ pin.hours_elapsed <= pin.later
    /\ pout = NoPricing

\* get_market_data, then calculate_optimal_price as _execute_copy_trade and
\* _adjust_order_price call it: for the order at hours_elapsed, for the same
\* order at the later hour, and for the opposite side at hours_elapsed
price_orders ==
    /\ pin.kind = "call"
    /\ pout.kind = "none"
    /\ LET market_data == get_market_data(pin.book)
       IN  pout' = [kind |-> "result",
                    liquidity |-> liquidity_of(market_data),
                    first |-> calculate_optimal_price(pin.target_price, pin.order_side, market_data, pin.hours_elapsed),
                    second |-> calculate_optimal_price(pin.target_price, pin.order_side, market_data, pin.later),
                    opposite |-> calculate_optimal_price(pin.target_price, other_side(pin.order_side), market_data,
                                                         pin.hours_elapsed)]
    /\ UNCHANGED <<sysvars, pin>>

NextPricing ==
    \/ price_orders

SpecPricing == InitPricing /\ [][NextPricing]_vars

(***************************************************************************)
(* Properties                                                              *)
(***************************************************************************)

\* the monitor is inside _monitor_trader, or has left it and not started the
\* next one: mon holds what that invocation fetched, detected and did
in_monitor_trader == mon.config # None

monitored_trader == Val(mon.config).target_trader_address

attempted == Len(mon.submitted) + Len(mon.skipped) + Len(mon.failed)

same_order_key(a, b) ==
    /\ a.user_wallet_address = b.user_wallet_address
    /\ a.market_id = b.market_id
    /\ a.token_id = b.token_id
    /\ a.order_side = b.order_side

\* C1: when the fetch of a trader's positions fails in a cycle, no copy order
\* is submitted and no pending order is cancelled for that trader in that
\* cycle, and the trader's stored snapshot is not advanced.
C1_FetchFailureSkipsTrader ==
    (in_monitor_trader /\ ~mon.fetch_ok) =>
        /\ mon.submitted = <<>>
        /\ mon.cancelled = {}
        /\ position_snapshots[monitored_trader] = mon.last_snapshot

\* C2: in every reachable state at most one row of pending_copy_orders with
\* status pending or partial exists per (user, market, token, side).
C2_OneOpenOrderPerKey ==
    \A i, j \in 1..Len(pending_copy_orders) :
        (/\ i < j
         /\ open_status(pending_copy_orders[i])
         /\ open_status(pending_copy_orders[j]))
        => ~same_order_key(pending_copy_orders[i], pending_copy_orders[j])

\* C3: when the monitor has come to submit the order of a SELL event (of
\* positions it fetched), every BUY row of that user for the event's market
\* and token that was open is marked cancelled and its order is cancelled on
\* the exchange.
C3_SellCancelsOpenBuys ==
    (mon.pc = "order" /\ mon.fetch_ok /\ Head(mon.changes).action = "SELL") =>
        \A i \in 1..Len(pending_copy_orders) :
            (/\ pending_copy_orders[i].user_wallet_address = Val(mon.config).user_wallet_address
             /\ pending_copy_orders[i].market_id = Head(mon.changes).market_id
             /\ pending_copy_orders[i].token_id = Head(mon.changes).token_id
             /\ pending_copy_orders[i].order_side = "BUY")
            => /\ ~open_status(pending_copy_orders[i])
               /\ (i \in mon.cancelled =>
                       exchange[Val(pending_copy_orders[i].clob_order_id)].state = "CANCELLED")

C5_FailedEventDropped ==
    (in_monitor_trader /\ mon.saved /\ mon.fetch_ok /\ mon.failed # <<>>) =>
        /\ attempted = Len(mon.detected)
        /\ position_snapshots[monitored_trader] = mon.current_positions
        /\ detect_position_changes(get_last_snapshot(monitored_trader), mon.current_positions) = <<>>

\* C6: calculate_optimal_price returns MARKET with a null price and urgency
\* critical when hours_elapsed is at or past the ceiling of the regime (36 for
\* tight and normal, 24 for wide), and a LIMIT result with a price below it.
C6_MarketAtCeiling ==
    pout.kind = "result" =>
        IF pin.hours_elapsed >= ceiling(pout.liquidity)
        THEN /\ pout.first.exc = "none"
             /\ pout.first.order_type = "MARKET"
             /\ pout.first.price = None
             /\ pout.first.urgency = "critical"
        ELSE /\ pout.first.exc = "none"
             /\ pout.first.order_type = "LIMIT"
             /\ pout.first.price # None

\* C7: every limit price the pricing returns, which is the price sent to the
\* exchange and stored as current_price, lies in [0, 1] for targets and
\* quotes in [0, 1], the default quotes included, at every elapsed time.
C7_PriceInUnitInterval ==
    (pout.kind = "result" /\ pout.first.exc = "none" /\ pout.first.order_type = "LIMIT") =>
        /\ 0 <= Val(pout.first.price)
        /\ Val(pout.first.price) <= PriceScale

\* C8: for a BUY, a fixed target and a fixed quote (hence regime), the LIMIT
\* price does not decrease with hours_elapsed below the ceiling.
C8_BuyPriceMonotone ==
    (/\ pout.kind = "result"
     /\ pin.order_side = "BUY"
     /\ pin.hours_elapsed < pin.later
     /\ pin.later < ceiling(pout.liquidity))
    => Val(pout.first.price) <= Val(pout.second.price)

\* C9: at the same elapsed time, target and quote a BUY is never priced below
\* the target and a SELL never above it, so the two adjustments have
\* opposite signs when they are not zero.
C9_BuySellOpposite ==
    (/\ pout.kind = "result"
     /\ pin.order_side = "BUY"
     /\ pin.hours_elapsed < ceiling(pout.liquidity))
    => /\ Val(pout.first.price) >= pin.target_price
       /\ Val(pout.opposite.price) <= pin.target_price

\* the last_adjustment values of an order of age h, as hours since then
SinceLast(h) == {None} \cup {Some(x) : x \in 0..h}

\* C10: should_adjust_price is false below 6 hours of age for every
\* adjustment_count and last_adjustment, and a row younger than 6 hours has
\* not been cancelled, re-priced or converted by the manager: its price,
\* order id and adjustment count are as created, and its order is cancelled
\* on the exchange only if the monitor cancelled the row.
C10_NoAdjustmentBeforeSixHours ==
    /\ \A h \in 0..(TIME_WINDOW_1 - 1), c \in 0..4 : \A l \in SinceLast(h) :
           ~should_adjust_price(h, l, c)
    /\ \A i \in 1..Len(pending_copy_orders) :
           LET row == pending_copy_orders[i]
           IN  now - row.created_at < TIME_WINDOW_1 =>
                   /\ row.current_price = row.initial_price
                   /\ row.clob_order_id = row.created_order_id
                   /\ row.price_adjustment_count = 0
                   /\ row.last_price_adjustment = None
                   /\ exchange[Val(row.clob_order_id)].order_type = "LIMIT"
                   /\ exchange[Val(row.clob_order_id)].price = Val(row.initial_price)
                   /\ (exchange[Val(row.clob_order_id)].state = "CANCELLED" => row.status = "cancelled")

\* the checkpoint of the k-th adjustment
checkpoint(k) ==
    IF k = 1 THEN TIME_WINDOW_1
    ELSE IF k = 2 THEN TIME_WINDOW_2
    ELSE IF k = 3 THEN TIME_WINDOW_3
    ELSE TIME_WINDOW_4

\* C10 happens: a pass of the manager has looked at a pending row three to
\* five hours old and is over, and the row's order is still live
C10_Witness ==
    \E e \in mgr[1].managed :
        /\ e[2] >= MIN_HOURS_BETWEEN
        /\ e[2] < TIME_WINDOW_1
        /\ pending_copy_orders[e[1]].status = "pending"
        /\ exchange[Val(pending_copy_orders[e[1]].clob_order_id)].state = "LIVE"
        /\ mgr[1].pc = "idle"

\* C11: for every row, two consecutive recorded price adjustments are at least
\* 3 hours apart, and the k-th recorded adjustment (k = 1..4) was made when
\* the row was at least as old as the k-th checkpoint (6, 12, 24, 36 hours);
\* there is no fifth.
C11_AdjustmentsAtCheckpoints ==
    \A i \in 1..Len(pending_copy_orders) :
        LET row == pending_copy_orders[i]
        IN  /\ Len(row.adjusted_at) = row.price_adjustment_count
            /\ Len(row.adjusted_at) <= 4
            /\ \A k \in 1..Len(row.adjusted_at) :
                   /\ row.adjusted_at[k] - row.created_at >= checkpoint(k)
                   /\ (k > 1 => row.adjusted_at[k] - row.adjusted_at[k - 1] >= MIN_HOURS_BETWEEN)

\* C11 happens: a row has had three recorded adjustments
C11_Witness ==
    \E i \in 1..Len(pending_copy_orders) :
        /\ pending_copy_orders[i].price_adjustment_count = 3
        /\ pending_copy_orders[i].last_price_adjustment = Some(pending_copy_orders[i].adjusted_at[3])

\* the events of a change list that are about key k
events_of(changes, k) ==
    {i \in 1..Len(changes) : changes[i].market_id = k[1] /\ changes[i].token_id = k[2]}

\* key k is in one snapshot only, or in both with different sizes
differs(old_snapshot, new_snapshot, k) ==
    \/ (k \in DOMAIN old_snapshot) # (k \in DOMAIN new_snapshot)
    \/ /\ k \in DOMAIN old_snapshot
       /\ k \in DOMAIN new_snapshot
       /\ old_snapshot[k].size # new_snapshot[k].size

\* key k is new, or its size grew
grew(old_snapshot, new_snapshot, k) ==
    /\ k \in DOMAIN new_snapshot
    /\ (k \in DOMAIN old_snapshot => new_snapshot[k].size > old_snapshot[k].size)

\* C12: for every pair of snapshots with sizes >= 0 the detection gives
\* exactly one event for each key whose presence or size differs and none for
\* a key of equal size; every event's size_change is greater than 0, and its
\* action is BUY when the size grew or the key is new, SELL when the size
\* shrank or the key disappeared.
C12_OneEventPerDifference ==
    pout.kind = "changes" =>
        \A k \in AllKeys :
            LET events == events_of(pout.changes, k)
            IN  /\ Cardinality(events) = (IF differs(pin.old_snapshot, pin.new_snapshot, k) THEN 1 ELSE 0)
                /\ \A i \in events :
                       /\ pout.changes[i].size_change > 0
                       /\ pout.changes[i].action =
                              (IF grew(pin.old_snapshot, pin.new_snapshot, k) THEN "BUY" ELSE "SELL")

\* the avg_price an event of the type for key k is to carry
reference_price(type, old_snapshot, new_snapshot, k) ==
    IF type \in {"SIZE_DECREASE", "POSITION_CLOSED"}
    THEN old_snapshot[k].avg_price
    ELSE new_snapshot[k].avg_price

\* the rows the current invocation of _monitor_trader has inserted: row j of
\* them is for event j of mon.submitted
submitted_row(j) == pending_copy_orders[Len(pending_copy_orders) - Len(mon.submitted) + j]

\* C13: the reference price (avg_price) of a SIZE_DECREASE or POSITION_CLOSED
\* event is the old snapshot's avg_price, that of a NEW_POSITION or
\* SIZE_INCREASE event the new snapshot's, and it is what the row of a
\* submitted event holds as target_price.
C13_ReferencePrice ==
    in_monitor_trader =>
        /\ \A i \in 1..Len(mon.detected) :
               LET change == mon.detected[i]
               IN  change.avg_price = reference_price(change.type, mon.last_snapshot, mon.current_positions,
                                                      <<change.market_id, change.token_id>>)
        /\ \A j \in 1..Len(mon.submitted) :
               /\ submitted_row(j).target_price = mon.submitted[j].avg_price
               /\ submitted_row(j).market_id = mon.submitted[j].market_id
               /\ submitted_row(j).order_side = mon.submitted[j].action

\* C13 happens: the row of a submitted SIZE_DECREASE event, the position's
\* avg_price being another in the new snapshot than in the old one
C13_Witness ==
    /\ in_monitor_trader
    /\ \E j \in 1..Len(mon.submitted) :
           LET change == mon.submitted[j]
               k == <<change.market_id, change.token_id>>
           IN  /\ change.type = "SIZE_DECREASE"
               /\ mon.last_snapshot[k].avg_price # mon.current_positions[k].avg_price
               /\ submitted_row(j).target_price = mon.last_snapshot[k].avg_price

\* user_size of an event for the config being monitored, in thousandths of a
\* share: size_change * copy_percentage / 100
event_user_size(change) == change.size_change * Val(mon.config).copy_percentage

\* the notional user_size * price in millionths of a dollar, for a price of
\* whole thousandths
notional(user_size, price) == user_size * (price \div Milli(1))

same_pairing(a, b) ==
    /\ a.user_wallet_address = b.user_wallet_address
    /\ a.target_trader_address = b.target_trader_address

\* how often the current cycle has called _monitor_trader for the pairing
times_monitored(config) ==
    Cardinality({i \in 1..Len(mon.monitored) : same_pairing(mon.monitored[i], config)})

processed(m) == SubSeq(mgr[m].loaded, 1, Len(mgr[m].loaded) - Len(mgr[m].orders))

\* C16: a pass of the manager goes through the rows it loaded one by one, in
\* ascending order of created_at and each once; when nothing of the pass has
\* been processed yet the loaded rows are all the pending and partial rows
\* of the table; and the pass gets to the end of its list, an exception
\* raised for a row leaving the rows after it to be processed.
C16_PassInCreationOrder ==
    LET pass == mgr[1]
    IN  /\ Len(pass.orders) <= Len(pass.loaded)
        /\ pass.orders = SubSeq(pass.loaded, Len(pass.loaded) - Len(pass.orders) + 1, Len(pass.loaded))
        /\ \A i, j \in 1..Len(pass.loaded) :
               i < j => /\ pass.loaded[i].id # pass.loaded[j].id
                        /\ pass.loaded[i].created_at <= pass.loaded[j].created_at
        /\ {e[1] : e \in pass.managed} = {processed(1)[i].id : i \in 1..Len(processed(1))}
        /\ pass.raised \subseteq {e[1] : e \in pass.managed}
        /\ (pass.pc = "orders" /\ pass.orders = pass.loaded) =>
               {pass.loaded[i].id : i \in 1..Len(pass.loaded)}
                   = {i \in 1..Len(pending_copy_orders) : pending_copy_orders[i].status \in {"pending", "partial"}}
        /\ pass.pc = "idle" => pass.orders = <<>>
        /\ pass.pc = "orders" => pass.orders # <<>>

\* C16 happens: a pass over two rows is over; the older row came first and
\* marking it filled raised, the newer one was processed after it and is
\* marked filled
C16_Witness ==
    /\ mgr[1].pc = "idle"
    /\ Len(mgr[1].loaded) = 2
    /\ mgr[1].loaded[1].created_at < mgr[1].loaded[2].created_at
    /\ mgr[1].raised = {mgr[1].loaded[1].id}
    /\ pending_copy_orders[mgr[1].loaded[1].id].status = "pending"
    /\ pending_copy_orders[mgr[1].loaded[2].id].status = "filled"

\* C17: a row for which the exchange rejected a submission has status failed
\* and no later submission for it went through; an event whose first
\* submission the exchange rejected has a row with status failed.
C17_RejectedOrderFailed ==
    /\ \A i \in 1..Len(pending_copy_orders) :
           pending_copy_orders[i].rejected # None =>
               /\ pending_copy_orders[i].status = "failed"
               /\ pending_copy_orders[i].price_adjustment_count = Val(pending_copy_orders[i].rejected)
    /\ in_monitor_trader =>
           \A j \in 1..Len(mon.failed) :
               \E i \in 1..Len(pending_copy_orders) :
                   /\ same_pairing(pending_copy_orders[i], Val(mon.config))
                   /\ pending_copy_orders[i].market_id = mon.failed[j].market_id
                   /\ pending_copy_orders[i].token_id = mon.failed[j].token_id
                   /\ pending_copy_orders[i].order_side = mon.failed[j].action
                   /\ pending_copy_orders[i].status = "failed"

\* the ExecutedCopyTrade rows written for row id of pending_copy_orders
trades_of(id) == {t \in 1..Len(executed_copy_trades) : executed_copy_trades[t].pending_id = id}

disabled_pairing(row, t) ==
    /\ row.user_wallet_address = POLYMARKET_WALLET_ADDRESS
    /\ row.target_trader_address = t

\* C19: a call of the disable endpoint for a trader sets enabled to false in
\* the config of the pairing and cancelled in its pending and partial rows,
\* and leaves every other config, every row of another pairing and every row
\* in a terminal state as it was.
C19_DisableCancelsPairing ==
    [][env'.disables = env.disables + 1 =>
          LET t == Val(env'.last_disabled)
          IN  /\ Len(copy_trading_config') = Len(copy_trading_config)
              /\ \A i \in 1..Len(copy_trading_config) :
                     copy_trading_config'[i] =
                         IF disabled_pairing(copy_trading_config[i], t)
                         THEN [copy_trading_config[i] EXCEPT !.enabled = FALSE]
                         ELSE copy_trading_config[i]
              /\ Len(pending_copy_orders') = Len(pending_copy_orders)
              /\ \A i \in 1..Len(pending_copy_orders) :
                     pending_copy_orders'[i] =
                         IF /\ disabled_pairing(pending_copy_orders[i], t)
                            /\ pending_copy_orders[i].status \in {"pending", "partial"}
                         THEN [pending_copy_orders[i] EXCEPT !.status = "cancelled"]
                         ELSE pending_copy_orders[i]
              /\ executed_copy_trades' = executed_copy_trades]_vars

\* C19 happens: the pairing of u1 with T1 was disabled while it had an open
\* row; the row is cancelled, the filled row of the pairing is as it was, and
\* the pairings of u2 with T1 and of u1 with T2 are enabled with open rows
C19_Witness ==
    /\ env.last_disabled = Some("T1")
    /\ \A i \in 1..Len(copy_trading_config) :
           copy_trading_config[i].enabled = ~disabled_pairing(copy_trading_config[i], "T1")
    /\ pending_copy_orders[1].status = "filled"
    /\ \E i \in 1..Len(pending_copy_orders) :
           /\ disabled_pairing(pending_copy_orders[i], "T1")
           /\ pending_copy_orders[i].status = "cancelled"
           /\ exchange[Val(pending_copy_orders[i].clob_order_id)].state = "LIVE"
    /\ \E i \in 1..Len(pending_copy_orders) :
           /\ pending_copy_orders[i].user_wallet_address = "u2"
           /\ pending_copy_orders[i].status = "pending"
    /\ \E i \in 1..Len(pending_copy_orders) :
           /\ pending_copy_orders[i].target_trader_address = "T2"
           /\ pending_copy_orders[i].status = "pending"

\* C20: with two passes of the manager at once, a row both passes loaded
\* while it was pending and both found FILLED is marked filled once and has
\* exactly one ExecutedCopyTrade row: no row has more than one, and a filled
\* row has one.
C20_OverlapFilledOnce ==
    \A i \in 1..Len(pending_copy_orders) :
        /\ Cardinality(trades_of(i)) <= 1
        /\ pending_copy_orders[i].status = "filled" => Cardinality(trades_of(i)) = 1

\* the row with the id among the rows the pass of manager run m loaded
loaded_row(m, id) == CHOOSE row \in {mgr[m].loaded[i] : i \in 1..Len(mgr[m].loaded)} : row.id = id

\* C21: a row of the pass that was not filled, was due for adjustment and for
\* which the strategy chose MARKET has its old exchange order cancelled and a
\* new order of type MARKET, of target_size at target_price, as its
\* clob_order_id; status, current_price and price_adjustment_count are those
\* the pass loaded.
C21_MarketConversion ==
    \A id \in mgr[1].signalled :
        LET old == loaded_row(1, id)
            row == pending_copy_orders[id]
        IN  /\ exchange[Val(old.clob_order_id)].state # "LIVE"
            /\ row.clob_order_id # old.clob_order_id
            /\ exchange[Val(row.clob_order_id)].order_type = "MARKET"
            /\ exchange[Val(row.clob_order_id)].size = row.target_size
            /\ exchange[Val(row.clob_order_id)].price = row.target_price
            /\ row.status = old.status
            /\ row.current_price = old.current_price
            /\ row.price_adjustment_count = old.price_adjustment_count

\* the distance of two prices
price_distance(a, b) == IF a >= b THEN a - b ELSE b - a

\* the exchange calls manager run 1 makes in a step
issued_commands == SubSeq(mgr'[1].commands, Len(mgr[1].commands) + 1, Len(mgr'[1].commands))

C23_ChangeCopiedOnce ==
    (/\ in_monitor_trader
     /\ mon.saved
     /\ mon.fetch_ok
     /\ trader_positions[monitored_trader] = mon.current_positions) =>
        detect_position_changes(get_last_snapshot(monitored_trader),
                                fetch_trader_positions(monitored_trader, TRUE)) = <<>>

\* C24: of two configs of different users on the same trader that a cycle
\* has monitored, the positions fetched for both, every change of the trader
\* the cycle detected for one has a copy attempt for the other too.
C24_EachConfigCopies ==
    \A i \in 1..Len(mon.attempts), j \in 1..Len(mon.attempts) :
        LET a == mon.attempts[i]
            b == mon.attempts[j]
        IN  (/\ a.config.target_trader_address = b.config.target_trader_address
             /\ a.config.user_wallet_address # b.config.user_wallet_address
             /\ a.fetch_ok
             /\ b.fetch_ok)
            => \A c \in 1..Len(a.changes) : \E d \in 1..Len(b.changes) : b.changes[d] = a.changes[c]

\* C25: the exchange order of a row with status cancelled is not live.
C25_CancelledNotLive ==
    \A i \in 1..Len(pending_copy_orders) :
        (pending_copy_orders[i].status = "cancelled" /\ pending_copy_orders[i].clob_order_id # None)
        => exchange[Val(pending_copy_orders[i].clob_order_id)].state # "LIVE"

\* the orders on the exchange that are live
live_on_exchange == {o \in 1..Len(exchange) : exchange[o].state = "LIVE"}

\* C26: with one row in pending_copy_orders, all orders on the exchange being
\* on its behalf, at most one of them is live at any time.
C26_OneLiveOrderPerRow ==
    Len(pending_copy_orders) = 1 => Cardinality(live_on_exchange) <= 1

\* the terminal states of a row
terminal_status(row) == row.status \in {"filled", "cancelled", "failed"}

\* C27: no step changes the status, the current_price or the clob_order_id
\* of a row that is filled, cancelled or failed, and the manager makes no
\* call on the exchange for such a row.
C27_TerminalAbsorbing ==
    [][\A i \in 1..Len(pending_copy_orders) :
          terminal_status(pending_copy_orders[i]) =>
              /\ pending_copy_orders'[i].status = pending_copy_orders[i].status
              /\ pending_copy_orders'[i].current_price = pending_copy_orders[i].current_price
              /\ pending_copy_orders'[i].clob_order_id = pending_copy_orders[i].clob_order_id
              /\ \A c \in 1..Len(issued_commands) : issued_commands[c].id # i]_vars

\* C29: a row that a pass of the manager has found unfilled at an age of 36
\* hours or more, past the ceiling of every regime, the exchange and the
\* order book answering, has an order of type MARKET on the exchange as its
\* order: it does not stay a resting limit order.
C29_MarketPastCeiling ==
    \A e \in mgr[1].managed :
        (e[2] >= TIME_WINDOW_4 /\ e[1] \in mgr[1].signalled) =>
            /\ pending_copy_orders[e[1]].clob_order_id # None
            /\ exchange[Val(pending_copy_orders[e[1]].clob_order_id)].order_type = "MARKET"

\* the quantity matched on the exchange over a sequence of orders
RECURSIVE total_matched(_)
total_matched(orders) ==
    IF orders = <<>> THEN 0 ELSE Head(orders).size_matched + total_matched(Tail(orders))

\* C30: with one row in pending_copy_orders, all orders on the exchange being
\* on its behalf, the quantity matched over all of them is at most the row's
\* target_size.
C30_FilledWithinTarget ==
    Len(pending_copy_orders) = 1 => total_matched(exchange) <= pending_copy_orders[1].target_size
====
